---- MODULE Spec2Model ----
(***************************************************************************)
(* promptvault: Prompt.render (src/src/promptvault/prompt.py) and the      *)
(* PromptVault facade (src/src/promptvault/vault.py) as state machines.    *)
(*                                                                         *)
(*   SpecRender  one Prompt and one render call                            *)
(*   SpecStore   a vault over a directory of parsed YAML files; each       *)
(*               public call runs to completion between external edits     *)
(*   SpecConc    the same calls, one step per scan of the directory, with  *)
(*               external edits of the directory interleaved               *)
(*   SpecLog     vaults appending to one JSONL log file                    *)
(***************************************************************************)
EXTENDS Integers, Sequences, FiniteSets, TLC

VARIABLES
    prompt,     \* the Prompt: [variables: Seq([name, meta]), template: Seq(token)]
    kwargs,     \* the keyword arguments of the render call (name -> value)
    out,        \* what render returned or raised; None before the call
    files,      \* the directory: file stem -> parsed YAML mapping
    pc,         \* position of the vault call in progress ("idle" between calls)
    call,       \* the call in progress or last completed: [op, name, ...]
    local,      \* the locals of the call in progress
    ret,        \* what the last completed call returned or raised
    seen,       \* history: the directory contents that existed during the call
    log_file,   \* vault -> None or the log path (self._log_file)
    dirs,       \* whether the log file's parent directory exists
    sink,       \* the log file: whether it exists, and its lines
    wpc,        \* vault -> position inside log()
    pending,    \* vault -> the line buffered by f.write, flushed on close
    hist,       \* history: the log() calls that passed the guard, in call order
    calls,      \* history: vault -> the number of log() calls that returned
    clock       \* datetime.utcnow(), as a counter

vars == <<prompt, kwargs, out, files, pc, call, local, ret, seen,
          log_file, dirs, sink, wpc, pending, hist, calls, clock>>

renderVars == <<prompt, kwargs, out>>
storeVars  == <<files, pc, call, local, ret, seen>>
logVars    == <<log_file, dirs, sink, wpc, pending, hist, calls, clock>>

None == [kind |-> "None"]

(***************************************************************************)
(* Python values and dict access                                           *)
(***************************************************************************)

\* The runtime values a caller passes, by Python type (kind).
StrVal(s)   == [kind |-> "str", s |-> s]
IntVal(n)   == [kind |-> "int", n |-> n]
BoolVal(b)  == [kind |-> "bool", b |-> b]

\* dict.get(key, default)
Get(d, key, default) == IF key \in DOMAIN d THEN d[key] ELSE default

\* isinstance(value, py_type), py_type one of str, int, float, bool.
\* bool is a subclass of int in Python.
IsInstance(value, py_type) ==
    CASE py_type = "str"   -> value.kind = "str"
      [] py_type = "int"   -> value.kind \in {"int", "bool"}
      [] py_type = "float" -> value.kind = "float"
      [] py_type = "bool"  -> value.kind = "bool"

\* type_map in _validate, and type_map.get(expected_type)
type_map == [str |-> "str", int |-> "int", float |-> "float", bool |-> "bool"]

\* str(value), as Template.substitute converts the mapped value
DigitText == <<"1", "2", "3", "4", "5", "6", "7", "8", "9">>
ToText(value) ==
    CASE value.kind = "str"   -> value.s
      [] value.kind = "int"   -> DigitText[value.n]
      [] value.kind = "bool"  -> IF value.b THEN "True" ELSE "False"

(***************************************************************************)
(* Prompt._validate, Prompt._apply_defaults, Template.substitute, render   *)
(***************************************************************************)

\* _validate: the declared variables in declaration order; the first failing
\* check raises.  Returns None, as the method does, when nothing raises.
RECURSIVE ValidateFrom(_, _, _)
ValidateFrom(variables, kw, i) ==
    IF i > Len(variables) THEN None
    ELSE
      LET var_name      == variables[i].name
          var_meta      == variables[i].meta
          required      == Get(var_meta, "required", TRUE)
          has_default   == "default" \in DOMAIN var_meta
          expected_type == Get(var_meta, "type", "")
          py_type       == Get(type_map, expected_type, "")
      IN  IF required /\ ~has_default /\ var_name \notin DOMAIN kw
          THEN [kind |-> "KeyError", at |-> "validate", var |-> var_name]
          ELSE IF /\ expected_type # ""
                  /\ var_name \in DOMAIN kw
                  /\ py_type # ""
                  /\ ~IsInstance(kw[var_name], py_type)
          THEN [kind |-> "TypeError", at |-> "validate", var |-> var_name]
          ELSE ValidateFrom(variables, kw, i + 1)

\* A validator that checks the types of all supplied values before it looks
\* for missing variables.
RECURSIVE TypesFrom(_, _, _)
TypesFrom(variables, kw, i) ==
    IF i > Len(variables) THEN None
    ELSE
      LET var_name      == variables[i].name
          expected_type == Get(variables[i].meta, "type", "")
          py_type       == Get(type_map, expected_type, "")
      IN  IF /\ expected_type # ""
             /\ var_name \in DOMAIN kw
             /\ py_type # ""
             /\ ~IsInstance(kw[var_name], py_type)
          THEN [kind |-> "TypeError", at |-> "validate", var |-> var_name]
          ELSE TypesFrom(variables, kw, i + 1)

ValidateTypesFirst(p, kw) ==
    IF TypesFrom(p.variables, kw, 1) # None
    THEN TypesFrom(p.variables, kw, 1)
    ELSE ValidateFrom(p.variables, kw, 1)

_validate(p, kw) == ValidateFrom(p.variables, kw, 1)

\* _apply_defaults: supplied value, else declared default, then every
\* supplied key not yet in merged.
DeclaredNames(p) == {p.variables[i].name : i \in DOMAIN p.variables}
MetaOf(p, n) == (CHOOSE i \in DOMAIN p.variables : p.variables[i].name = n)
MergedDeclared(p, kw) ==
    LET keys == {n \in DeclaredNames(p) :
                    n \in DOMAIN kw \/ "default" \in DOMAIN p.variables[MetaOf(p, n)].meta}
    IN  [n \in keys |-> IF n \in DOMAIN kw THEN kw[n]
                        ELSE p.variables[MetaOf(p, n)].meta.default]
\* A merge in which a declared default wins over the supplied value.
ApplyDefaultsFirst(p, kw) ==
    LET declared == {n \in DeclaredNames(p) :
                        "default" \in DOMAIN p.variables[MetaOf(p, n)].meta}
    IN  [n \in declared \cup DOMAIN kw |->
            IF n \in declared THEN p.variables[MetaOf(p, n)].meta.default ELSE kw[n]]

_apply_defaults(p, kw) ==
    LET merged == MergedDeclared(p, kw)
    IN  [n \in DOMAIN merged \cup DOMAIN kw |->
            IF n \in DOMAIN merged THEN merged[n] ELSE kw[n]]

\* string.Template(template).substitute(mapping): the tokens left to right.
\*   "ph"  : $identifier or ${identifier}    "esc" : $$
\*   "lit" : text without a dollar sign       "bad" : a dollar sign that starts
\*                                                    neither (ValueError)
RECURSIVE SubstituteFrom(_, _, _, _)
SubstituteFrom(template, mapping, i, acc) ==
    IF i > Len(template) THEN [kind |-> "ok", text |-> acc]
    ELSE
      LET tok == template[i]
      IN  CASE tok.t = "lit" ->
                 SubstituteFrom(template, mapping, i + 1,
                                Append(acc, [src |-> "lit", text |-> tok.s]))
            [] tok.t = "esc" ->
                 SubstituteFrom(template, mapping, i + 1,
                                Append(acc, [src |-> "esc", text |-> "$"]))
            [] tok.t = "ph" ->
                 IF tok.s \in DOMAIN mapping
                 THEN SubstituteFrom(template, mapping, i + 1,
                                Append(acc, [src |-> "val", text |-> ToText(mapping[tok.s])]))
                 ELSE [kind |-> "KeyError", at |-> "substitute", var |-> tok.s]
            [] tok.t = "bad" ->
                 [kind |-> "ValueError", at |-> "substitute", var |-> ""]

\* Template.safe_substitute: an unknown or malformed placeholder stays in the text.
RECURSIVE SafeSubstituteFrom(_, _, _, _)
SafeSubstituteFrom(template, mapping, i, acc) ==
    IF i > Len(template) THEN [kind |-> "ok", text |-> acc]
    ELSE
      LET tok == template[i]
          piece == CASE tok.t = "lit" -> [src |-> "lit", text |-> tok.s]
                     [] tok.t = "esc" -> [src |-> "esc", text |-> "$"]
                     [] tok.t = "ph"  ->
                          IF tok.s \in DOMAIN mapping
                          THEN [src |-> "val", text |-> ToText(mapping[tok.s])]
                          ELSE [src |-> "ph", text |-> tok.s]
                     [] tok.t = "bad" -> [src |-> "lit", text |-> "$"]
      IN  SafeSubstituteFrom(template, mapping, i + 1, Append(acc, piece))

SafeSubstitute(template, mapping) == SafeSubstituteFrom(template, mapping, 1, <<>>)

Substitute(template, mapping) == SubstituteFrom(template, mapping, 1, <<>>)

\* render: validate, merge, substitute; the KeyError of substitute is re-raised
\* as a KeyError listing the declared names, a ValueError propagates.
Render(p, kw) ==
    LET v == _validate(p, kw)
    IN  IF v # None THEN v
        ELSE LET merged == _apply_defaults(p, kw)
                 r      == Substitute(p.template, merged)
             IN  IF r.kind = "KeyError"
                 THEN [kind |-> "KeyError", at |-> "substitute", var |-> r.var]
                 ELSE r

(***************************************************************************)
(* SpecRender: the inputs of render, drawn from bounded sets                *)
(***************************************************************************)

MaxTemplate == 2    \* tokens per template

EmptyMap == [x \in {} |-> x]

Names == {"a", "b"}      \* the names of variables, declared or not
Values == {StrVal("7"), IntVal(7), BoolVal(TRUE)}
DefaultValues == {StrVal("d")}
\* the declared tags tried: two tags of type_map, and "integer", a tag
\* type_map does not know
TypeTags == {"str", "int", "integer"}

RequiredPart == {EmptyMap} \cup {("required" :> b) : b \in BOOLEAN}
DefaultPart  == {EmptyMap} \cup {("default" :> v) : v \in DefaultValues}
TypePart     == {EmptyMap} \cup {("type" :> t) : t \in TypeTags}
VarMetas == {r @@ d @@ t : r \in RequiredPart, d \in DefaultPart, t \in TypePart}

RECURSIVE SeqsUpTo(_, _)
SeqsUpTo(S, n) ==
    IF n = 0 THEN {<<>>}
    ELSE LET shorter == SeqsUpTo(S, n - 1)
         IN  shorter \cup {Append(q, x) : q \in shorter, x \in S}

\* dicts keep insertion order: the declarations are a sequence without
\* repeated names.  Renaming the variables changes nothing in render, so the
\* i-th declared variable is the i-th name of DeclOrder; a name past the
\* declared ones is an undeclared name.
DeclOrder == <<"a", "b">>
DeclCounts == 0..Len(DeclOrder)
Declarations ==
    UNION {{[i \in 1..n |-> [name |-> DeclOrder[i], meta |-> ms[i]]] :
                ms \in [1..n -> VarMetas]} : n \in DeclCounts}

Tokens == {[t |-> "ph", s |-> n] : n \in Names}
            \cup {[t |-> "lit", s |-> "x"], [t |-> "esc", s |-> ""], [t |-> "bad", s |-> ""]}
Templates == SeqsUpTo(Tokens, MaxTemplate)

Prompts == [variables : Declarations, template : Templates]

KwargsSets == UNION {[D -> Values] : D \in SUBSET Names}

StoreIdle ==
    /\ files = EmptyMap /\ pc = "idle" /\ call = None /\ local = None
    /\ ret = None /\ seen = {}
NoFile == [exists |-> FALSE, lines |-> <<>>]
LogIdle ==
    /\ log_file = EmptyMap /\ dirs = FALSE /\ sink = NoFile /\ wpc = EmptyMap
    /\ pending = EmptyMap /\ hist = <<>> /\ calls = EmptyMap /\ clock = 0
RenderIdle ==
    /\ prompt = [variables |-> <<>>, template |-> <<>>]
    /\ kwargs = EmptyMap /\ out = None

InitRender ==
    /\ prompt \in Prompts
    /\ kwargs = EmptyMap
    /\ out = None
    /\ StoreIdle /\ LogIdle

\* prompt.render(**kw): the record is not changed
RenderCall ==
    \E kw \in KwargsSets :
        /\ out = None
        /\ kwargs' = kw
        /\ out' = Render(prompt, kw)
        /\ UNCHANGED <<prompt, storeVars, logVars>>

NextRender == RenderCall

SpecRender == InitRender /\ [][NextRender]_vars

(***************************************************************************)
(* Claims about render (SpecRender)                                        *)
(***************************************************************************)

Rendered == out # None
Decl(i) == prompt.variables[i]
IsRequired(i) == Get(Decl(i).meta, "required", TRUE)
HasDefault(i) == "default" \in DOMAIN Decl(i).meta
Supplied(i) == Decl(i).name \in DOMAIN kwargs
\* required, undefaulted and absent from the supplied mapping
MissingRequired(i) == IsRequired(i) /\ ~HasDefault(i) /\ ~Supplied(i)
\* The runtime kind a declared tag stands for; the spec spells the whole-number
\* tag "integer".  "" for no tag.
TagKind(i) ==
    LET t == Get(Decl(i).meta, "type", "")
    IN  IF t = "integer" THEN "int" ELSE t
\* the supplied value's runtime kind disagrees with the declared tag
KindDisagrees(i) ==
    /\ TagKind(i) # ""
    /\ Supplied(i)
    /\ kwargs[Decl(i).name].kind # TagKind(i)
\* the supplied mapping contains every declared variable that has to be supplied
RequiredSupplied == \A i \in DOMAIN prompt.variables : ~MissingRequired(i)
NoTypeViolation == \A i \in DOMAIN prompt.variables : ~KindDisagrees(i)
NoUnresolvedPlaceholder ==
    /\ out.kind = "ok"
    /\ \A k \in DOMAIN out.text : out.text[k].src # "ph"
PlaceholderAt(k) == prompt.template[k].t = "ph"
\* the placeholder names a supplied variable or a declared one with a default
HasValue(n) ==
    \/ n \in DOMAIN kwargs
    \/ \E i \in DOMAIN prompt.variables : Decl(i).name = n /\ HasDefault(i)
WellFormed == \A k \in DOMAIN prompt.template : prompt.template[k].t # "bad"
AllPlaceholdersHaveValue ==
    \A k \in DOMAIN prompt.template : PlaceholderAt(k) => HasValue(prompt.template[k].s)
FirstWithoutValue ==
    CHOOSE k \in DOMAIN prompt.template :
        /\ PlaceholderAt(k) /\ ~HasValue(prompt.template[k].s)
        /\ \A j \in 1..(k - 1) : ~(PlaceholderAt(j) /\ ~HasValue(prompt.template[j].s))

\* C2 as stated: whenever the supplied mapping contains every declared required
\* variable and violates no declared type, render succeeds and the text holds
\* no unresolved placeholder -- whatever the (well-formed) template references.
C2_AlwaysSucceeds ==
    (Rendered /\ RequiredSupplied /\ NoTypeViolation /\ WellFormed) =>
        NoUnresolvedPlaceholder

\* C2 amended: under the same precondition and a well-formed template, render
\* succeeds with no unresolved placeholder when every placeholder names a
\* supplied variable or a declared variable with a default, and otherwise fails
\* with the missing-variable error of the substitution step, naming the first
\* placeholder without a value.
C2_SucceedsWhenPlaceholdersHaveValues ==
    (Rendered /\ RequiredSupplied /\ NoTypeViolation /\ WellFormed) =>
        IF AllPlaceholdersHaveValue
        THEN NoUnresolvedPlaceholder
        ELSE /\ out.kind = "KeyError"
             /\ out.at = "substitute"
             /\ out.var = prompt.template[FirstWithoutValue].s

\* C2 witness: a two-placeholder template rendered successfully, one value
\* taken from a declared default and one from an undeclared supplied name.
C2_Witness ==
    /\ Rendered /\ RequiredSupplied /\ NoTypeViolation /\ WellFormed
    /\ out.kind = "ok"
    /\ Len(prompt.variables) = 1 /\ HasDefault(1) /\ ~Supplied(1)
    /\ prompt.template = <<[t |-> "ph", s |-> "a"], [t |-> "ph", s |-> "b"]>>
    /\ "b" \in DOMAIN kwargs

FirstMissing ==
    CHOOSE i \in DOMAIN prompt.variables :
        MissingRequired(i) /\ \A j \in 1..(i - 1) : ~MissingRequired(j)
SomeMissing == \E i \in DOMAIN prompt.variables : MissingRequired(i)

\* C3 as stated: when some declared variable is required, undefaulted and absent,
\* render fails with the missing-variable error of validation, which names such
\* a variable -- whatever else is declared and supplied.
C3_AlwaysMissingVariable ==
    (Rendered /\ SomeMissing) =>
        /\ out.kind = "KeyError" /\ out.at = "validate"
        /\ \E i \in DOMAIN prompt.variables : MissingRequired(i) /\ out.var = Decl(i).name

\* C3 amended: when some declared variable is required, undefaulted and absent,
\* render fails in validation and returns no text.  The error is the
\* missing-variable error naming the first such variable in declaration order,
\* unless a variable declared before it was supplied a value of another kind than
\* its type tag: then the error may be the type-mismatch error, naming such an
\* earlier variable.
C3_FailsInValidation ==
    (Rendered /\ SomeMissing) =>
        /\ out.kind \in {"KeyError", "TypeError"} /\ out.at = "validate"
        /\ out.kind = "KeyError" => out.var = Decl(FirstMissing).name
        /\ out.kind = "TypeError" =>
              \E j \in 1..(FirstMissing - 1) : KindDisagrees(j) /\ out.var = Decl(j).name
        /\ (\A j \in 1..(FirstMissing - 1) : ~KindDisagrees(j)) => out.kind = "KeyError"

\* C3 witness: the second declared variable is required, undefaulted and absent,
\* the first is typed int and supplied an int; render raised the
\* missing-variable error for the second.
C3_Witness ==
    /\ Rendered /\ Len(prompt.variables) = 2
    /\ MissingRequired(2) /\ ~MissingRequired(1)
    /\ TagKind(1) = "int" /\ Supplied(1) /\ ~KindDisagrees(1)
    /\ out = [kind |-> "KeyError", at |-> "validate", var |-> "b"]

\* C4 as stated: a supplied value whose runtime kind disagrees with the declared
\* tag (str, int, float, bool: the tags of type_map) makes render fail; text for
\* an int variable and a boolean for an int variable included.
C4_KindMismatchRejected ==
    (Rendered /\ \E i \in DOMAIN prompt.variables :
                    /\ Get(Decl(i).meta, "type", "") \in DOMAIN type_map
                    /\ KindDisagrees(i))
        => out.kind # "ok"

\* every declared variable a placeholder of the template names has a default
TemplateOnlyDefaulted ==
    \A k \in DOMAIN prompt.template :
        PlaceholderAt(k) =>
            \E i \in DOMAIN prompt.variables :
                Decl(i).name = prompt.template[k].s /\ HasDefault(i)
\* supplied set to the declared defaults
DeclaredDefaults ==
    LET D == {i \in DOMAIN prompt.variables : HasDefault(i)}
    IN  [n \in {Decl(i).name : i \in D} |->
            Decl(CHOOSE i \in D : Decl(i).name = n).meta.default]
\* a supplied value wins over the declared default, and an undeclared supplied
\* name is substituted: every placeholder of a rendered text carries the text of
\* the supplied value when there is one, of the declared default otherwise
SuppliedTakesPrecedence ==
    out.kind = "ok" =>
        \A k \in DOMAIN prompt.template :
            PlaceholderAt(k) =>
                LET n == prompt.template[k].s
                IN  out.text[k].text =
                        ToText(IF n \in DOMAIN kwargs THEN kwargs[n] ELSE DeclaredDefaults[n])

\* the default of a typed variable is itself of the declared type, as _validate
\* checks a supplied value
DefaultsWellTyped ==
    \A i \in DOMAIN prompt.variables :
        LET t == Get(Decl(i).meta, "type", "")
        IN  (HasDefault(i) /\ t \in DOMAIN type_map) =>
                IsInstance(Decl(i).meta.default, type_map[t])
NoneRequiredWithoutDefault ==
    \A i \in DOMAIN prompt.variables : IsRequired(i) => HasDefault(i)

\* C5 as stated, read in its favour (a well-formed template, every declared
\* variable defaulted or optional): when the template references only declared
\* variables that have a default, render with nothing supplied succeeds and
\* equals render with the declared defaults supplied; and a supplied value takes
\* precedence.
C5_EmptyEqualsDefaults ==
    Rendered =>
        /\ (/\ TemplateOnlyDefaulted /\ WellFormed /\ NoneRequiredWithoutDefault
            /\ kwargs = EmptyMap) =>
              /\ out.kind = "ok"
              /\ out = Render(prompt, DeclaredDefaults)
        /\ SuppliedTakesPrecedence

\* C5 amended: when the template is well-formed and references only declared
\* variables that have a default, no declared variable is required without a
\* default, and every default of a typed variable is of its declared type, render
\* with nothing supplied succeeds and equals render with the declared defaults
\* supplied; and in every rendered text a supplied value takes precedence over
\* the default, undeclared supplied names included.
C5_EmptyEqualsWellTypedDefaults ==
    Rendered =>
        /\ (/\ TemplateOnlyDefaulted /\ WellFormed
            /\ NoneRequiredWithoutDefault /\ DefaultsWellTyped
            /\ kwargs = EmptyMap) =>
              /\ out.kind = "ok"
              /\ out = Render(prompt, DeclaredDefaults)
        /\ SuppliedTakesPrecedence

\* C5 witness: a template of two placeholders, both declared with a default (one
\* typed str), rendered with nothing supplied.
C5_Witness ==
    /\ Rendered /\ kwargs = EmptyMap /\ out.kind = "ok"
    /\ Len(prompt.variables) = 2 /\ HasDefault(1) /\ HasDefault(2)
    /\ TagKind(1) = "str"
    /\ prompt.template = <<[t |-> "ph", s |-> "b"], [t |-> "ph", s |-> "a"]>>
    /\ out = Render(prompt, DeclaredDefaults)

(***************************************************************************)
(* The directory of YAML files, as yaml.safe_load returns each of them     *)
(***************************************************************************)

\* A YAML scalar: a str (its characters) or a float (in tenths: 12 is 1.2).
\* version: "1.2" loads as a str, version: 1.2 as a float.
YStr(chars)   == [kind |-> "str", chars |-> chars]
YFloat(t)     == [kind |-> "float", tenths |-> t]

\* ord(c) of the characters used
Ord == ("." :> 46) @@ ("0" :> 48) @@ ("1" :> 49) @@ ("2" :> 50) @@
       ("p" :> 112) @@ ("q" :> 113) @@ ("r" :> 114)

\* str < str in Python: by code point, a proper prefix first
RECURSIVE StrLess(_, _)
StrLess(x, y) ==
    IF y = <<>> THEN FALSE
    ELSE IF x = <<>> THEN TRUE
    ELSE IF Ord[Head(x)] # Ord[Head(y)] THEN Ord[Head(x)] < Ord[Head(y)]
    ELSE StrLess(Tail(x), Tail(y))

\* x < y for two YAML scalars of one kind
PyLess(x, y) ==
    IF x.kind = "str" THEN StrLess(x.chars, y.chars) ELSE x.tenths < y.tenths

\* str(x): a str is itself, a float prints with one decimal
DigitChar == <<"1", "2", "3", "4", "5", "6", "7", "8", "9">>
DigitOf(n) == IF n = 0 THEN "0" ELSE DigitChar[n]
PyStr(x) ==
    IF x.kind = "str" THEN x.chars
    ELSE <<DigitOf(x.tenths \div 10), ".", DigitOf(x.tenths % 10)>>

\* sorted(keys): the indices of keys in sorted order.  The sort is stable, and
\* comparing a str with a float raises TypeError.
RECURSIVE InsertIdx(_, _, _)
InsertIdx(sortedIdx, keys, i) ==
    IF sortedIdx = <<>> THEN <<i>>
    ELSE IF PyLess(keys[i], keys[Head(sortedIdx)])
         THEN <<i>> \o sortedIdx
         ELSE <<Head(sortedIdx)>> \o InsertIdx(Tail(sortedIdx), keys, i)
RECURSIVE SortIdxFrom(_, _, _)
SortIdxFrom(keys, i, acc) ==
    IF i > Len(keys) THEN acc
    ELSE SortIdxFrom(keys, i + 1, InsertIdx(acc, keys, i))
SortIdx(keys) == SortIdxFrom(keys, 1, <<>>)
Comparable(keys) == \A i, j \in DOMAIN keys : keys[i].kind = keys[j].kind

\* the orders in which glob("*.yaml") may yield the files
Perms(S) ==
    {q \in [1..Cardinality(S) -> S] : \A i, j \in DOMAIN q : q[i] = q[j] => i = j}

\* _find_files(name): the files whose "name" is name, in glob order, each
\* with its path under "_file"
RECURSIVE FindFrom(_, _, _, _)
FindFrom(fs, order, name, i) ==
    IF i > Len(order) THEN <<>>
    ELSE LET data == fs[order[i]]
             rest == FindFrom(fs, order, name, i + 1)
         IN  IF "name" \in DOMAIN data /\ data.name = name
             THEN <<data @@ ("_file" :> order[i])>> \o rest
             ELSE rest
_find_files(fs, order, name) == FindFrom(fs, order, name, 1)

\* list(): the set of data.get("name", f.stem), sorted
RECURSIVE SortNames(_)
SortNames(S) ==
    IF S = {} THEN <<>>
    ELSE LET least == CHOOSE x \in S : \A y \in S : ~StrLess(y, x)
         IN  <<least>> \o SortNames(S \ {least})
List(fs) ==
    [kind |-> "ok",
     val  |-> SortNames({Get(fs[f], "name", f) : f \in DOMAIN fs})]

\* _parse(data): the Prompt; the other fields do not enter the claims
_parse(data) ==
    [name     |-> data.name,
     version  |-> PyStr(Get(data, "version", YStr(<<"1", ".", "0">>))),
     template |-> data.template,
     file     |-> data._file]

KeyErrorVersion == [kind |-> "KeyError", key |-> "version"]
HasVersion(cands) == \A i \in DOMAIN cands : "version" \in DOMAIN cands[i]
VersionKeys(cands) == [i \in DOMAIN cands |-> cands[i].version]

\* next((p for p in candidates if p["version"] == version), None): p["version"]
\* raises KeyError on a candidate without the key that is reached before a match
RECURSIVE FirstMatch(_, _, _)
FirstMatch(cands, version, i) ==
    IF i > Len(cands) THEN None
    ELSE IF "version" \notin DOMAIN cands[i] THEN KeyErrorVersion
    ELSE IF cands[i].version = version THEN [kind |-> "match", at |-> i]
    ELSE FirstMatch(cands, version, i + 1)

\* versions(name)
Versions(fs, order, name) ==
    LET cands == _find_files(fs, order, name)
    IN  IF ~HasVersion(cands) THEN KeyErrorVersion
        ELSE IF ~Comparable(VersionKeys(cands)) THEN [kind |-> "TypeError"]
        ELSE LET keys == VersionKeys(cands)
                 idx  == SortIdx(keys)
             IN  [kind |-> "ok", val |-> [k \in DOMAIN idx |-> keys[idx[k]]]]

\* the part of load(name, version) after candidates was found non-empty
Resolve(cands, version) ==
    IF version # None
    THEN LET m == FirstMatch(cands, version, 1)
         IN  IF m = KeyErrorVersion THEN m
             ELSE IF m = None
             THEN [kind |-> "FileNotFoundError", what |-> "version",
                   versions |-> VersionKeys(cands)]
             ELSE [kind |-> "ok", val |-> _parse(cands[m.at])]
    ELSE IF ~HasVersion(cands) THEN KeyErrorVersion
    ELSE IF ~Comparable(VersionKeys(cands)) THEN [kind |-> "TypeError"]
    ELSE LET idx == SortIdx(VersionKeys(cands))
         IN  [kind |-> "ok", val |-> _parse(cands[idx[Len(idx)]])]

\* the error of load(name) when candidates is empty; listing is self.list()
PromptNotFound(listing) ==
    [kind |-> "FileNotFoundError", what |-> "prompt", prompts |-> listing.val]

\* load(name, version) on one unchanging directory
Load(fs, order, name, version) ==
    LET cands == _find_files(fs, order, name)
    IN  IF cands = <<>> THEN PromptNotFound(List(fs))
        ELSE Resolve(cands, version)

\* the rest of diff once both versions are loaded: difflib.unified_diff of the
\* two templates, or "(no differences)"
DiffText(a, b, name, version_a, version_b) ==
    IF a.template = b.template
    THEN [kind |-> "ok", val |-> [text |-> "(no differences)"]]
    ELSE [kind |-> "ok",
          val  |-> [text     |-> "unified diff",
                    fromfile |-> [name |-> name, v |-> version_a.chars],
                    tofile   |-> [name |-> name, v |-> version_b.chars],
                    minus    |-> a.template, plus |-> b.template]]

\* diff(name, version_a, version_b) on one unchanging directory
Diff(fs, order, name, version_a, version_b) ==
    LET a == Load(fs, order, name, version_a)
    IN  IF a.kind # "ok" THEN a
        ELSE LET b == Load(fs, order, name, version_b)
             IN  IF b.kind # "ok" THEN b
                 ELSE DiffText(a.val, b.val, name, version_a, version_b)

(***************************************************************************)
(* SpecStore: the vault over a directory that is edited only between calls  *)
(***************************************************************************)

MaxFiles == 2       \* files in the directory

P == <<"p">>
Q == <<"q">>
R == <<"r">>
V12  == <<"1", ".", "2">>
V110 == <<"1", ".", "1", "0">>

\* file stems (x.yaml has stem x); a stem may equal a prompt name
StemOrder == <<P, Q, R>>
Stems == {StemOrder[i] : i \in {k \in 1..MaxFiles : k <= Len(StemOrder)}}
PromptNames == {P, Q}
NamePart    == {EmptyMap} \cup {("name" :> n) : n \in PromptNames}
VersionPart == {EmptyMap} \cup {("version" :> v) : v \in {YStr(V12), YStr(V110), YFloat(12)}}
FileData == {n @@ v @@ ("template" :> t) :
                n \in NamePart, v \in VersionPart, t \in {"T1", "T2"}}
\* the versions a caller asks for (a str), or None for the latest
AskedVersions == {YStr(V12), YStr(V110)}

InitStore ==
    /\ files = EmptyMap
    /\ pc = "idle" /\ call = None /\ local = None /\ ret = None /\ seen = {}
    /\ RenderIdle /\ LogIdle

\* Somebody writes, rewrites or deletes a .yaml file of the directory.
EditFile ==
    /\ pc = "idle"
    /\ \/ \E f \in Stems, d \in FileData :
            files' = [g \in DOMAIN files \cup {f} |-> IF g = f THEN d ELSE files[g]]
       \/ \E f \in DOMAIN files :
            files' = [g \in DOMAIN files \ {f} |-> files[g]]
    /\ call' = None /\ ret' = None
    /\ UNCHANGED <<pc, local, seen, renderVars, logVars>>

CallList ==
    /\ pc = "idle"
    /\ call' = [op |-> "list"]
    /\ ret' = List(files)
    /\ UNCHANGED <<files, pc, local, seen, renderVars, logVars>>

CallVersions ==
    \E name \in PromptNames, order \in Perms(DOMAIN files) :
        /\ pc = "idle"
        /\ call' = [op |-> "versions", name |-> name]
        /\ ret' = Versions(files, order, name)
        /\ UNCHANGED <<files, pc, local, seen, renderVars, logVars>>

CallLoad ==
    \E name \in PromptNames \cup Stems, version \in AskedVersions \cup {None},
       order \in Perms(DOMAIN files) :
        /\ pc = "idle"
        /\ call' = [op |-> "load", name |-> name, version |-> version]
        /\ ret' = Load(files, order, name, version)
        /\ UNCHANGED <<files, pc, local, seen, renderVars, logVars>>

CallDiff ==
    \E name \in PromptNames, version_a \in AskedVersions, version_b \in AskedVersions,
       order \in Perms(DOMAIN files) :
        /\ pc = "idle"
        /\ call' = [op |-> "diff", name |-> name,
                    version_a |-> version_a, version_b |-> version_b]
        /\ ret' = Diff(files, order, name, version_a, version_b)
        /\ UNCHANGED <<files, pc, local, seen, renderVars, logVars>>

NextStore == EditFile \/ CallList \/ CallVersions \/ CallLoad \/ CallDiff

SpecStore == InitStore /\ [][NextStore]_vars

(***************************************************************************)
(* Claims about the vault on an unchanging directory (SpecStore)           *)
(***************************************************************************)

Called(op) == call # None /\ call.op = op
\* the files a call by this name is about
Held(name) == {f \in DOMAIN files : "name" \in DOMAIN files[f] /\ files[f].name = name}

\* The numeric-aware order of the specification: the pieces between dots are
\* compared as integers, a shorter version padded with zeros.
RECURSIVE SplitDots(_, _, _)
SplitDots(chars, piece, acc) ==
    IF chars = <<>> THEN Append(acc, piece)
    ELSE IF Head(chars) = "." THEN SplitDots(Tail(chars), <<>>, Append(acc, piece))
    ELSE SplitDots(Tail(chars), Append(piece, Head(chars)), acc)
RECURSIVE PieceInt(_, _)
PieceInt(piece, n) ==
    IF piece = <<>> THEN n ELSE PieceInt(Tail(piece), 10 * n + (Ord[Head(piece)] - 48))
RECURSIVE PiecesLess(_, _)
PiecesLess(x, y) ==
    IF x = <<>> /\ y = <<>> THEN FALSE
    ELSE LET a == IF x = <<>> THEN 0 ELSE PieceInt(Head(x), 0)
             b == IF y = <<>> THEN 0 ELSE PieceInt(Head(y), 0)
         IN  IF a # b THEN a < b
             ELSE PiecesLess(IF x = <<>> THEN x ELSE Tail(x),
                             IF y = <<>> THEN y ELSE Tail(y))
NumericLess(v, w) == PiecesLess(SplitDots(v, <<>>, <<>>), SplitDots(w, <<>>, <<>>))

\* C1 as stated: versions(name) is ascending under the numeric-aware order
\* ("1.2" before "1.10"), and load(name) with no version returns the maximum
\* under it (the "1.10" record, not the "1.2" one).
C1_NumericAwareOrder ==
    /\ (Called("versions") /\ ret.kind = "ok") =>
           \A i, j \in DOMAIN ret.val :
               (i < j /\ ret.val[i].kind = "str" /\ ret.val[j].kind = "str") =>
                   ~NumericLess(ret.val[j].chars, ret.val[i].chars)
    /\ (Called("load") /\ call.version = None /\ ret.kind = "ok") =>
           \A f \in Held(call.name) :
               ("version" \in DOMAIN files[f] /\ files[f].version.kind = "str") =>
                   ~NumericLess(ret.val.version, files[f].version.chars)

\* the version a stored record has once loaded: str(data.get("version", "1.0"))
StoredVersion(f) == _parse(files[f] @@ ("_file" :> f)).version

\* C6 as stated: load(name, v) returns a record of that name and exactly that
\* version whenever the directory holds one, however its version is written;
\* fails with version-not-found, carrying all available versions, when the name
\* exists without that version; fails with prompt-not-found when the name does
\* not exist.  (Stated for directories whose records all carry a version.)
C6_LoadByVersion ==
    (/\ Called("load") /\ call.version # None
     /\ \A f \in Held(call.name) : "version" \in DOMAIN files[f]) =>
        LET held  == Held(call.name)
            exact == {f \in held : StoredVersion(f) = call.version.chars}
        IN  IF held = {}
            THEN ret.kind = "FileNotFoundError" /\ ret.what = "prompt"
            ELSE IF exact # {}
            THEN /\ ret.kind = "ok"
                 /\ ret.val.name = call.name
                 /\ ret.val.version = call.version.chars
            ELSE /\ ret.kind = "FileNotFoundError" /\ ret.what = "version"
                 /\ {PyStr(ret.versions[i]) : i \in DOMAIN ret.versions}
                        = {StoredVersion(f) : f \in held}

\* C10 as stated: list() is ascending without repeats, every name it returns can
\* be loaded (load does not fail with prompt-not-found), and every name that
\* loads is listed.
C10_ListAgreesWithLoad ==
    /\ Called("list") =>
          /\ \A i, j \in DOMAIN ret.val : i < j => StrLess(ret.val[i], ret.val[j])
          /\ \A i \in DOMAIN ret.val, order \in Perms(DOMAIN files) :
                LET r == Load(files, order, ret.val[i], None)
                IN  ~(r.kind = "FileNotFoundError" /\ r.what = "prompt")
    /\ (Called("load") /\ ret.kind = "ok") =>
          \E i \in DOMAIN List(files).val : List(files).val[i] = call.name

(***************************************************************************)
(* SpecConc: the calls step by step, the directory edited at any moment.   *)
(* Every _find_files and every list() is one scan of the directory; load    *)
(* scans a second time (self.list(), for the message) when it found no      *)
(* candidate, and diff runs load twice.                                     *)
(***************************************************************************)

MaxSeen == 2        \* directory contents that may exist during one call

ConcFileData ==
    {("name" :> P) @@ ("version" :> v) @@ ("template" :> t) :
        v \in {YStr(V12), YStr(V110)}, t \in {"T1", "T2"}}

InitConc == InitStore

\* Somebody writes, rewrites or deletes a .yaml file, between two calls or in
\* the middle of one.
ConcEditFile ==
    /\ pc # "idle" => Cardinality(seen) < MaxSeen
    /\ \/ \E f \in Stems, d \in ConcFileData :
            files' = [g \in DOMAIN files \cup {f} |-> IF g = f THEN d ELSE files[g]]
       \/ \E f \in DOMAIN files :
            files' = [g \in DOMAIN files \ {f} |-> files[g]]
    /\ IF pc = "idle"
       THEN call' = None /\ ret' = None /\ seen' = {} /\ UNCHANGED local
       ELSE seen' = seen \cup {files'} /\ UNCHANGED <<call, ret, local>>
    /\ UNCHANGED <<pc, renderVars, logVars>>

ConcList ==
    /\ pc = "idle"
    /\ call' = [op |-> "list"]
    /\ ret' = List(files)
    /\ seen' = {files}
    /\ UNCHANGED <<files, pc, local, renderVars, logVars>>

ConcVersions ==
    \E order \in Perms(DOMAIN files) :
        /\ pc = "idle"
        /\ call' = [op |-> "versions", name |-> P]
        /\ ret' = Versions(files, order, P)
        /\ seen' = {files}
        /\ UNCHANGED <<files, pc, local, renderVars, logVars>>

\* One run of load(name, version) up to its return or to self.list(): the
\* outcome, or "list" when no candidate was found.
LoadScan(fs, order, name, version) ==
    LET cands == _find_files(fs, order, name)
    IN  IF cands = <<>> THEN [kind |-> "list"] ELSE Resolve(cands, version)

\* load(name, version) is entered and scans the directory.
ConcLoad ==
    \E version \in AskedVersions \cup {None}, order \in Perms(DOMAIN files) :
        /\ pc = "idle"
        /\ call' = [op |-> "load", name |-> P, version |-> version]
        /\ seen' = {files}
        /\ LET r == LoadScan(files, order, P, version)
           IN  IF r.kind = "list"
               THEN pc' = "list" /\ ret' = None
               ELSE pc' = "idle" /\ ret' = r
        /\ local' = None
        /\ UNCHANGED <<files, renderVars, logVars>>

\* diff(name, version_a, version_b) is entered and loads version_a.
ConcDiff ==
    \E version_a \in AskedVersions, version_b \in AskedVersions,
       order \in Perms(DOMAIN files) :
        /\ pc = "idle"
        /\ call' = [op |-> "diff", name |-> P,
                    version_a |-> version_a, version_b |-> version_b]
        /\ seen' = {files}
        /\ LET r == LoadScan(files, order, P, version_a)
           IN  IF r.kind = "list"
               THEN pc' = "list" /\ ret' = None /\ local' = None
               ELSE IF r.kind = "ok"
               THEN /\ pc' = "load_b" /\ ret' = None
                    /\ local' = [a |-> r.val, order |-> order]
               ELSE pc' = "idle" /\ ret' = r /\ local' = None
        /\ UNCHANGED <<files, renderVars, logVars>>

\* diff loads version_b and, with both loaded, returns the diff.  A directory
\* nobody touched is listed by glob in the order of the first scan.
ConcDiffLoadB ==
    \E order \in Perms(DOMAIN files) :
        /\ pc = "load_b"
        /\ seen = {files} => order = local.order
        /\ LET r == LoadScan(files, order, call.name, call.version_b)
           IN  IF r.kind = "list"
               THEN pc' = "list" /\ ret' = None
               ELSE /\ pc' = "idle"
                    /\ ret' = IF r.kind = "ok"
                              THEN DiffText(local.a, r.val, call.name,
                                            call.version_a, call.version_b)
                              ELSE r
        /\ local' = None
        /\ UNCHANGED <<files, call, seen, renderVars, logVars>>

\* load found no candidate: self.list() scans the directory for the message
\* of the error raised.
ConcLoadList ==
    /\ pc = "list"
    /\ ret' = PromptNotFound(List(files))
    /\ pc' = "idle"
    /\ UNCHANGED <<files, call, local, seen, renderVars, logVars>>

NextConc ==
    \/ ConcEditFile \/ ConcList \/ ConcVersions \/ ConcLoad
    \/ ConcDiff \/ ConcDiffLoadB \/ ConcLoadList

SpecConc == InitConc /\ [][NextConc]_vars

\* what the call returns on one unchanging directory fs scanned in this order
OnSnapshot(c, fs, order) ==
    CASE c.op = "list"     -> List(fs)
      [] c.op = "versions" -> Versions(fs, order, c.name)
      [] c.op = "load"     -> Load(fs, order, c.name, c.version)
      [] c.op = "diff"     -> Diff(fs, order, c.name, c.version_a, c.version_b)

\* C8 as stated: an edit of the directory is seen by the next call and never in
\* the middle of one: what a call returns or raises is what it returns or raises
\* on one of the contents the directory had during the call.
C8_OneSnapshotPerCall ==
    (pc = "idle" /\ call # None) =>
        \E fs \in seen : \E order \in Perms(DOMAIN fs) : ret = OnSnapshot(call, fs, order)

(***************************************************************************)
(* SpecLog: vaults (one per process) logging to one JSONL file             *)
(***************************************************************************)

MaxLog == 3         \* log() calls in one run

Vaults == {"v1", "v2"}
LogPath == [kind |-> "path", parent |-> "logs", name |-> "usage.jsonl"]

\* the arguments of log(): extra may repeat a fixed key, "timestamp" included
Extras == {EmptyMap, ("user" :> StrVal("u")), ("prompt" :> StrVal("x")),
           ("timestamp" :> StrVal("t"))}
Responses == {None, StrVal("ok")}

\* the record of lines 116-124: the fixed fields, then extra over them
Record(now, name, version, rendered, response, model, extra) ==
    extra @@ [timestamp |-> [kind |-> "iso", t |-> now],
              prompt    |-> StrVal(name),
              version   |-> version,
              model     |-> model,
              rendered  |-> rendered,
              response  |-> response]

\* a guard that never returns early
NeverNoSink(v) == FALSE

\* if self._log_file is None: return
NoSink(v) == log_file[v] = None

\* open(path, "w"): the file is created or emptied
OpenTruncate(file) == [exists |-> TRUE, lines |-> <<>>]

\* open(path, "a"): the file is created when missing and kept otherwise
OpenAppend(file) == [exists |-> TRUE, lines |-> file.lines]

\* one write of a whole line to a file opened for appending
AppendLine(file, line) == [exists |-> TRUE, lines |-> Append(file.lines, line)]

InitLog ==
    /\ log_file \in [Vaults -> {None, LogPath}]
    /\ dirs \in BOOLEAN
    /\ sink = NoFile
    /\ wpc = [v \in Vaults |-> "idle"]
    /\ pending = [v \in Vaults |-> None]
    /\ calls = [v \in Vaults |-> 0]
    /\ hist = <<>>
    /\ clock = 0
    /\ RenderIdle /\ StoreIdle

\* log(name, ...) is entered: without a sink it returns at once, with one it
\* builds the record (lines 114-124)
LogCall(v) ==
    \E extra \in Extras, response \in Responses :
        /\ wpc[v] = "idle"
        /\ calls[v] + Len(hist) < MaxLog
        /\ IF NoSink(v)
           THEN /\ calls' = [calls EXCEPT ![v] = @ + 1]
                /\ UNCHANGED <<wpc, pending, hist, clock>>
           ELSE /\ wpc' = [wpc EXCEPT ![v] = "mkdir"]
                /\ pending' = [pending EXCEPT ![v] =
                        [id   |-> Len(hist) + 1,
                         line |-> Record(clock, "p", None, None, response, None, extra)]]
                /\ hist' = Append(hist, [by |-> v, id |-> Len(hist) + 1])
                /\ clock' = clock + 1
                /\ UNCHANGED calls
        /\ UNCHANGED <<log_file, dirs, sink, renderVars, storeVars>>

\* self._log_file.parent.mkdir(parents=True, exist_ok=True)
LogMkdir(v) ==
    /\ wpc[v] = "mkdir"
    /\ dirs' = TRUE
    /\ wpc' = [wpc EXCEPT ![v] = "open"]
    /\ UNCHANGED <<log_file, sink, pending, hist, calls, clock, renderVars, storeVars>>

\* open(self._log_file, "a", encoding="utf-8")
LogOpen(v) ==
    /\ wpc[v] = "open"
    /\ sink' = OpenAppend(sink)
    /\ wpc' = [wpc EXCEPT ![v] = "write"]
    /\ UNCHANGED <<log_file, dirs, pending, hist, calls, clock, renderVars, storeVars>>

\* f.write(json.dumps(record) + "\n") and the end of the with block: the line
\* is flushed in one write to a file opened for appending, so it lands at the
\* end the file has at that moment; log returns
LogWriteClose(v) ==
    /\ wpc[v] = "write"
    /\ sink' = AppendLine(sink, pending[v])
    /\ wpc' = [wpc EXCEPT ![v] = "idle"]
    /\ pending' = [pending EXCEPT ![v] = None]
    /\ calls' = [calls EXCEPT ![v] = @ + 1]
    /\ UNCHANGED <<log_file, dirs, hist, clock, renderVars, storeVars>>

NextLog ==
    \E v \in Vaults : LogCall(v) \/ LogMkdir(v) \/ LogOpen(v) \/ LogWriteClose(v)

SpecLog == InitLog /\ [][NextLog]_vars

(***************************************************************************)
(* Claims about log (SpecLog)                                              *)
(***************************************************************************)

\* the vault was constructed with no log sink
Sinkless(v) == log_file[v] = None

\* C7: a log() call of a vault without a sink returns normally at once and
\* changes nothing: no directory, no file, no line, no record store change.
C7_NoSinkNoEffect ==
    [][\A v \in Vaults :
          (Sinkless(v) /\ <<calls[v], wpc[v], pending[v]>>' # <<calls[v], wpc[v], pending[v]>>) =>
              /\ calls'[v] = calls[v] + 1
              /\ wpc'[v] = "idle" /\ pending'[v] = None
              /\ UNCHANGED <<dirs, sink, files, hist, clock, log_file>>]_vars

\* C7 witness: a vault without a sink has logged twice; neither the directory
\* nor the file exists.
C7_Witness ==
    \E v \in Vaults : Sinkless(v) /\ calls[v] >= 2 /\ ~sink.exists /\ ~dirs

\* the ids of the lines in the file, of the calls of vault v that returned, and
\* of the lines in the file that the calls of vault v wrote
LineIds == [i \in DOMAIN sink.lines |-> sink.lines[i].id]
ReturnedIds(v) ==
    LET mine == SelectSeq(hist, LAMBDA h : h.by = v)
    IN  [i \in 1..calls[v] |-> mine[i].id]
IdsOf(v) == SelectSeq(LineIds, LAMBDA id : hist[id].by = v)

====
